---- MODULE Spec2Model ----
(***************************************************************************)
(* State-machine model of src/app.py (Probabilistic Delivery Suite): the   *)
(* page controller, the Delivery Forecast run (show_forecast: the scope    *)
(* Monte Carlo loop and its percentiles) and the Risk Horizon run          *)
(* (show_horizon: the burn-up simulation, the percentile lines, the        *)
(* crossing locator get_exact_week, the markers and the Risk Menu).        *)
(*                                                                         *)
(* Numbers.  np.percentile interpolates linearly between two ordered       *)
(* samples at rank q/100, so every percentile of integers is a multiple of *)
(* 1/100: percentile values, and the trajectories and target handed to     *)
(* get_exact_week, are kept as integers scaled by 100.  The week returned  *)
(* by get_exact_week is kept exactly, as the record                        *)
(*   [found, whole, num, den, eps]  =  whole + num / (den + eps * 1e-9)    *)
(* (found = FALSE is Python's None).  With eps = 1 and 0 <= num <= den the *)
(* fraction is 0 iff num = 0 and is always below 1.                        *)
(***************************************************************************)
EXTENDS Integers, Sequences, FiniteSets, TLC

VARIABLES
    page,             \* st.session_state['page']
    stage,            \* position of the script run: idle, clicked, trial, week, done, error
    error,            \* the exception that ended the run, "none" otherwise
    sims,             \* st.number_input("Simulations")
    i,                \* index of the trial loop, for i in range(sims)
    scope_min,        \* show_forecast
    scope_max,
    pulse,
    total_work,
    weeks,
    velocity,
    results,
    summary,          \* [ready, p50, p85, p95], percentiles scaled by 100
    pulse_data,       \* show_horizon
    project_actuals,
    total_scope,
    current_week,
    items_done,
    simulation_pool,
    futures,
    y_med,            \* trajectories handed to get_exact_week, scaled by 100
    y_comm,
    y_out_bot,
    w_50_exact,
    w_85_exact,
    w_95_exact,
    markers,          \* per option: is the vertical line drawn, and its ~W label
    menu              \* per option: the Risk Menu text produced by fmt_week

vars == << page, stage, error, sims, i, scope_min, scope_max, pulse, total_work,
           weeks, velocity, results, summary, pulse_data, project_actuals,
           total_scope, current_week, items_done, simulation_pool, futures,
           y_med, y_comm, y_out_bot, w_50_exact, w_85_exact, w_95_exact,
           markers, menu >>

forecastVars == << scope_min, scope_max, pulse, total_work, weeks, velocity,
                   results, summary >>

horizonVars == << pulse_data, project_actuals, total_scope, current_week,
                  items_done, simulation_pool, futures, y_med, y_comm,
                  y_out_bot, w_50_exact, w_85_exact, w_95_exact, markers, menu >>

---------------------------------------------------------------------------
(* Bounds of the model and the inputs that are enumerated.                 *)

\* Largest number of trials entered in the Simulations field.
MaxSims == 2

\* Scope bounds entered are -1 .. MaxScope, and 10 (the documented scenario).
MaxScope == 3

\* Weeks simulated per burn-up trial: the code's remaining_weeks is 30; the
\* model simulates this many so that the matrix of trials stays enumerable.
HorizonBound == 5

ScopeChoices == (-1 .. MaxScope) \cup {10}

SimsChoices == -1 .. MaxSims

\* Team History (Pulse) entries of the forecast page, as parsed by line 134.
ForecastPulses == { <<>>, <<5, 5, 5, 5, 5>>, <<0, 2>>, <<-1, 3>> }

\* Risk Horizon entries: Pulse, Project Actuals and Total Scope.
HorizonInputs ==
    { [p |-> <<>>,       a |-> <<>>,       t |-> 0],
      [p |-> <<>>,       a |-> <<>>,       t |-> 5],
      [p |-> <<10>>,     a |-> <<>>,       t |-> 5],
      [p |-> <<10>>,     a |-> <<>>,       t |-> 50],
      [p |-> <<10>>,     a |-> <<>>,       t |-> 0],
      [p |-> <<10>>,     a |-> <<10, 10>>, t |-> 5],
      [p |-> <<10>>,     a |-> <<10, 10>>, t |-> 20],
      [p |-> <<10>>,     a |-> <<10, 10>>, t |-> 50],
      [p |-> <<0>>,      a |-> <<>>,       t |-> 0],
      [p |-> <<0>>,      a |-> <<>>,       t |-> 5],
      [p |-> <<0, 1>>,   a |-> <<>>,       t |-> 2],
      [p |-> <<-1>>,     a |-> <<>>,       t |-> 0],
      [p |-> <<-1, 2>>,  a |-> <<>>,       t |-> 1],
      [p |-> <<>>,       a |-> <<1>>,      t |-> 5] }

---------------------------------------------------------------------------
(* Helpers for Python values.                                              *)

Range(s) == { s[k] : k \in 1 .. Len(s) }

RECURSIVE SumSeq(_)
SumSeq(s) == IF s = <<>> THEN 0 ELSE s[1] + SumSeq(Tail(s))

\* A lenient draw that swaps reversed bounds instead of raising.
randint_swapping(a, b) == IF a <= b THEN a .. b ELSE b .. a

\* random.randint(a, b): the values it can return; none when a > b, where
\* it raises ValueError.
randint(a, b) == a .. b

\* The fallback forgotten: an empty pool stays empty.
Fallback_missing(pool) == pool

\* "if not pulse: pulse = [1]"
Fallback(pool) == IF pool = <<>> THEN <<1>> ELSE pool

\* The substitution forgotten: a zero or negative draw is subtracted as is.
EffectiveVelocity_raw(v) == v

\* "if velocity <= 0: velocity = 1"
EffectiveVelocity(v) == IF v <= 0 THEN 1 ELSE v

\* The loop test off by one: "while total_work >= 0".
LoopContinues_inclusive(tw) == tw >= 0

\* "while total_work > 0"
LoopContinues(tw) == tw > 0

\* The week counter of the forecast loop never passes the largest scope;
\* this cap on the counter is never reached by the loop as written.
WeekCap == 12

\* np.percentile(data, q), method "linear", times 100: with n samples the
\* virtual index is q/100 * (n-1), between ordered samples lo and lo+1.
Percentile(data, q) ==
    LET sorted == SortSeq(data, LAMBDA a, b : a < b)
        pos    == q * (Len(data) - 1)
        lo     == pos \div 100
        fr     == pos % 100
    IN  IF fr = 0
        THEN 100 * sorted[lo + 1]
        ELSE 100 * sorted[lo + 1] + fr * (sorted[lo + 2] - sorted[lo + 1])

NoSummary == [ready |-> FALSE, p50 |-> 0, p85 |-> 0, p95 |-> 0]

None == [found |-> FALSE, whole |-> 0, num |-> 0, den |-> 0, eps |-> 0]

NoMarker == [drawn |-> FALSE, label |-> 0]

NoMenu == [text |-> "", week |-> 0]

---------------------------------------------------------------------------
(* Page controller and the widgets.                                        *)

Init ==
    /\ page = "home"
    /\ stage = "idle"
    /\ error = "none"
    /\ sims = 0
    /\ i = 0
    /\ scope_min = 0
    /\ scope_max = 0
    /\ pulse = <<>>
    /\ total_work = 0
    /\ weeks = 0
    /\ velocity = 0
    /\ results = <<>>
    /\ summary = NoSummary
    /\ pulse_data = <<>>
    /\ project_actuals = <<>>
    /\ total_scope = 0
    /\ current_week = 0
    /\ items_done = 0
    /\ simulation_pool = <<>>
    /\ futures = <<>>
    /\ y_med = <<>>
    /\ y_comm = <<>>
    /\ y_out_bot = <<>>
    /\ w_50_exact = None
    /\ w_85_exact = None
    /\ w_95_exact = None
    /\ markers = [o \in {"A", "B", "C"} |-> NoMarker]
    /\ menu = [o \in {"A", "B", "C"} |-> NoMenu]

\* The locals of a script run before any input is read.
FreshLocals ==
    /\ error' = "none"
    /\ sims' = 0
    /\ i' = 0
    /\ scope_min' = 0
    /\ scope_max' = 0
    /\ pulse' = <<>>
    /\ total_work' = 0
    /\ weeks' = 0
    /\ velocity' = 0
    /\ results' = <<>>
    /\ summary' = NoSummary
    /\ pulse_data' = <<>>
    /\ project_actuals' = <<>>
    /\ total_scope' = 0
    /\ current_week' = 0
    /\ items_done' = 0
    /\ simulation_pool' = <<>>
    /\ futures' = <<>>
    /\ y_med' = <<>>
    /\ y_comm' = <<>>
    /\ y_out_bot' = <<>>
    /\ w_50_exact' = None
    /\ w_85_exact' = None
    /\ w_95_exact' = None
    /\ markers' = [o \in {"A", "B", "C"} |-> NoMarker]
    /\ menu' = [o \in {"A", "B", "C"} |-> NoMenu]

\* show_home: "Go to Delivery Forecast".
GoForecast ==
    /\ page = "home" /\ stage = "idle"
    /\ page' = "forecast"
    /\ UNCHANGED << stage, error, sims, i, forecastVars, horizonVars >>

\* show_home: "Go to Risk Horizon".
GoHorizon ==
    /\ page = "home" /\ stage = "idle"
    /\ page' = "horizon"
    /\ UNCHANGED << stage, error, sims, i, forecastVars, horizonVars >>

\* "<- Home" on either page.
BackHome ==
    /\ page \in {"forecast", "horizon"} /\ stage = "idle"
    /\ page' = "home"
    /\ UNCHANGED << stage, error, sims, i, forecastVars, horizonVars >>

\* Any later interaction reruns the script from the top with fresh locals.
Rerun ==
    /\ stage \in {"done", "error"}
    /\ stage' = "idle"
    /\ FreshLocals
    /\ UNCHANGED page

---------------------------------------------------------------------------
(* show_forecast.                                                          *)

\* The widgets are read and "Run Monte Carlo" was pressed.
ClickRunForecast ==
    /\ page = "forecast" /\ stage = "idle"
    /\ \E lo \in ScopeChoices, hi \in ScopeChoices,
          p \in ForecastPulses, n \in SimsChoices :
          /\ scope_min' = lo
          /\ scope_max' = hi
          /\ pulse' = p
          /\ sims' = n
    /\ stage' = "clicked"
    /\ UNCHANGED << page, error, i, total_work, weeks, velocity, results,
                    summary, horizonVars >>

\* "if run_btn": the fallback pool and the empty result list.
BeginForecast ==
    /\ page = "forecast" /\ stage = "clicked"
    /\ pulse' = Fallback(pulse)
    /\ results' = <<>>
    /\ i' = 0
    /\ stage' = "trial"
    /\ UNCHANGED << page, error, sims, scope_min, scope_max, total_work, weeks,
                    velocity, summary, horizonVars >>

\* One pass of "for i in range(sims)" up to the while loop: the scope draw.
DrawScope ==
    /\ page = "forecast" /\ stage = "trial" /\ i < sims
    /\ IF randint(scope_min, scope_max) = {}
       THEN /\ stage' = "error"
            /\ error' = "ValueError"
            /\ UNCHANGED << total_work, weeks >>
       ELSE /\ total_work' \in randint(scope_min, scope_max)
            /\ weeks' = 0
            /\ stage' = "week"
            /\ UNCHANGED error
    /\ UNCHANGED << page, sims, i, scope_min, scope_max, pulse, velocity,
                    results, summary, horizonVars >>

\* One iteration of "while total_work > 0".
WeekStep ==
    /\ page = "forecast" /\ stage = "week"
    /\ LoopContinues(total_work)
    /\ weeks < WeekCap
    /\ \E v \in Range(pulse) :
          /\ velocity' = EffectiveVelocity(v)
          /\ total_work' = total_work - EffectiveVelocity(v)
    /\ weeks' = weeks + 1
    /\ UNCHANGED << page, stage, error, sims, i, scope_min, scope_max, pulse,
                    results, summary, horizonVars >>

\* The loop is left and "results.append(weeks)" ends the trial.
RecordTrial ==
    /\ page = "forecast" /\ stage = "week"
    /\ ~LoopContinues(total_work)
    /\ results' = Append(results, weeks)
    /\ i' = i + 1
    /\ stage' = "trial"
    /\ UNCHANGED << page, error, sims, scope_min, scope_max, pulse, total_work,
                    weeks, velocity, summary, horizonVars >>

\* After the trials: the three percentiles (and the chart and report that
\* only read them).  np.percentile of an empty array raises IndexError.
SummarizeForecast ==
    /\ page = "forecast" /\ stage = "trial" /\ i >= sims
    /\ IF results = <<>>
       THEN /\ stage' = "error"
            /\ error' = "IndexError"
            /\ UNCHANGED summary
       ELSE /\ summary' = [ready |-> TRUE,
                           p50 |-> Percentile(results, 50),
                           p85 |-> Percentile(results, 85),
                           p95 |-> Percentile(results, 95)]
            /\ stage' = "done"
            /\ UNCHANGED error
    /\ UNCHANGED << page, sims, i, scope_min, scope_max, pulse, total_work,
                    weeks, velocity, results, horizonVars >>

ForecastRun ==
    \/ BeginForecast
    \/ DrawScope
    \/ WeekStep
    \/ RecordTrial
    \/ SummarizeForecast

ForecastNext ==
    \/ GoForecast
    \/ BackHome
    \/ ClickRunForecast
    \/ ForecastRun
    \/ Rerun

\* The forecast page alone; a script run, once started, runs to its end.
ForecastSpec == Init /\ [][ForecastNext]_vars /\ WF_vars(ForecastRun)

---------------------------------------------------------------------------
(* show_horizon.                                                           *)

\* "remaining_weeks = 30  # Horizon", scaled to the model's horizon.
remaining_weeks == HorizonBound

\* The scope engine's substitution carried over to the burn-up.
Accumulate_substituting(cumulative, v) == cumulative + (IF v <= 0 THEN 1 ELSE v)

\* "cumulative += random.choice(simulation_pool)"
Accumulate(cumulative, v) == cumulative + v

\* Every trial started from zero instead of from the items done.
StartOfTrial_zero(done) == 0

\* "cumulative = items_done": where a trial's running total starts.
StartOfTrial(done) == done

\* The rows the inner loop "for w in range(remaining_weeks)" can build:
\* n more draws from pool, each added to the running total and recorded.
RECURSIVE PathsFrom(_, _, _, _)
PathsFrom(pool, cumulative, path, n) ==
    IF n = 0
    THEN {path}
    ELSE UNION { PathsFrom(pool, Accumulate(cumulative, v),
                           Append(path, Accumulate(cumulative, v)), n - 1) :
                 v \in Range(pool) }

\* "simulation_pool = pulse_data + project_actuals" and its fallback.
SamplingPool(pd, pa) == Fallback(pd \o pa)

\* np.zeros((sims, remaining_weeks))
Zeros(rows, cols) == [r \in 1 .. rows |-> [w \in 1 .. cols |-> 0]]

\* np.percentile(futures, q, axis=0): one percentile per week, times 100.
PercentileByWeek(matrix, q) ==
    [w \in 1 .. remaining_weeks |->
        Percentile([r \in 1 .. Len(matrix) |-> matrix[r][w]], q)]

\* The percentile vector scanned without the items done in front.
Trajectory_bare(done, p) == p

\* "[items_done] + list(p)": the line that is drawn and scanned, times 100.
Trajectory(done, p) == <<100 * done>> \o p

\* Strict comparisons: a segment that only touches the target is skipped.
Crosses_strict(val_start, val_end, target) == val_start < target /\ val_end > target

\* "if val_start <= target and val_end >= target"
Crosses(val_start, val_end, target) == val_start <= target /\ val_end >= target

\* Body of get_exact_week from segment k on (k counts from 1, Python's i
\* is k - 1): the first crossing segment gives (i + current_week) +
\* (target - val_start) / (val_end - val_start + 1e-9), none gives None.
RECURSIVE ScanFrom(_, _, _)
ScanFrom(y_values, target, k) ==
    IF k > Len(y_values) - 1
    THEN None
    ELSE IF Crosses(y_values[k], y_values[k + 1], target)
         THEN [found |-> TRUE,
               whole |-> (k - 1) + current_week,
               num   |-> target - y_values[k],
               den   |-> y_values[k + 1] - y_values[k],
               eps   |-> 1]
         ELSE ScanFrom(y_values, target, k + 1)

\* The scan started at the second segment.
get_exact_week_late(y_values, target) == ScanFrom(y_values, target, 2)

get_exact_week(y_values, target) == ScanFrom(y_values, target, 1)

\* The fraction num / (den + eps * 1e-9) of a returned week is exactly 1.
FractionIsOne(w) == w.eps = 0 /\ w.den > 0 /\ w.num = w.den

\* Python's truth value of a returned week: None and 0.0 are false.
Truthy(w) == w.found /\ ~(w.whole = 0 /\ w.num = 0)

\* int(w) and int(np.ceil(w)) of a returned week.
IntOfWeek(w) == IF FractionIsOne(w) THEN w.whole + 1 ELSE w.whole

CeilOfWeek(w) == IF w.num = 0 THEN w.whole ELSE w.whole + 1

\* "if w_50_exact: ax.vlines(...); ax.text(..., f'~W{int(w_50_exact)}')"
Marker(w) == IF Truthy(w) THEN [drawn |-> TRUE, label |-> IntOfWeek(w)]
                          ELSE NoMarker

\* 'return f"Week {int(np.ceil(w))}" if w else "N/A"'
fmt_week(w) == IF Truthy(w) THEN [text |-> "Week", week |-> CeilOfWeek(w)]
                            ELSE [text |-> "N/A", week |-> 0]

\* The widgets are read and "Update Forecast" was pressed.
ClickRunHorizon ==
    /\ page = "horizon" /\ stage = "idle"
    /\ \E in \in HorizonInputs, n \in SimsChoices :
          /\ pulse_data' = in.p
          /\ project_actuals' = in.a
          /\ total_scope' = in.t
          /\ sims' = n
    /\ stage' = "clicked"
    /\ UNCHANGED << page, error, i, forecastVars, current_week, items_done,
                    simulation_pool, futures, y_med, y_comm, y_out_bot,
                    w_50_exact, w_85_exact, w_95_exact, markers, menu >>

\* "if run_btn": fallback, week and total so far, the sampling pool and the
\* zero matrix, which np.zeros refuses for a negative number of rows.
BeginHorizon ==
    /\ page = "horizon" /\ stage = "clicked"
    /\ pulse_data' = Fallback(pulse_data)
    /\ current_week' = Len(project_actuals)
    /\ items_done' = SumSeq(project_actuals)
    /\ simulation_pool' = SamplingPool(Fallback(pulse_data), project_actuals)
    /\ i' = 0
    /\ IF sims < 0
       THEN /\ stage' = "error"
            /\ error' = "ValueError"
            /\ UNCHANGED futures
       ELSE /\ futures' = Zeros(sims, remaining_weeks)
            /\ stage' = "trial"
            /\ UNCHANGED error
    /\ UNCHANGED << page, sims, forecastVars, project_actuals, total_scope,
                    y_med, y_comm, y_out_bot, w_50_exact, w_85_exact,
                    w_95_exact, markers, menu >>

\* One pass of "for i in range(sims)": a whole row of the matrix.
SimulateTrial ==
    /\ page = "horizon" /\ stage = "trial" /\ i < sims
    /\ \E path \in PathsFrom(simulation_pool, StartOfTrial(items_done), <<>>,
                             remaining_weeks) :
          futures' = [futures EXCEPT ![i + 1] = path]
    /\ i' = i + 1
    /\ UNCHANGED << page, stage, error, sims, forecastVars, pulse_data,
                    project_actuals, total_scope, current_week, items_done,
                    simulation_pool, y_med, y_comm, y_out_bot, w_50_exact,
                    w_85_exact, w_95_exact, markers, menu >>

\* After the trials: the percentile lines, the three crossings, the
\* markers and the Risk Menu.  np.percentile over an empty axis raises
\* IndexError.
AnalyzeHorizon ==
    /\ page = "horizon" /\ stage = "trial" /\ i >= sims
    /\ IF futures = <<>>
       THEN /\ stage' = "error"
            /\ error' = "IndexError"
            /\ UNCHANGED << y_med, y_comm, y_out_bot, w_50_exact, w_85_exact,
                            w_95_exact, markers, menu >>
       ELSE /\ y_med' = Trajectory(items_done, PercentileByWeek(futures, 50))
            /\ y_comm' = Trajectory(items_done, PercentileByWeek(futures, 15))
            /\ y_out_bot' = Trajectory(items_done, PercentileByWeek(futures, 5))
            /\ w_50_exact' = get_exact_week(y_med', 100 * total_scope)
            /\ w_85_exact' = get_exact_week(y_comm', 100 * total_scope)
            /\ w_95_exact' = get_exact_week(y_out_bot', 100 * total_scope)
            /\ markers' = [o \in {"A", "B", "C"} |->
                             IF o = "A" THEN Marker(w_50_exact')
                             ELSE IF o = "B" THEN Marker(w_85_exact')
                             ELSE Marker(w_95_exact')]
            /\ menu' = [o \in {"A", "B", "C"} |->
                          IF o = "A" THEN fmt_week(w_50_exact')
                          ELSE IF o = "B" THEN fmt_week(w_85_exact')
                          ELSE fmt_week(w_95_exact')]
            /\ stage' = "done"
            /\ UNCHANGED error
    /\ UNCHANGED << page, sims, i, forecastVars, pulse_data, project_actuals,
                    total_scope, current_week, items_done, simulation_pool,
                    futures >>

HorizonRun ==
    \/ BeginHorizon
    \/ SimulateTrial
    \/ AnalyzeHorizon

---------------------------------------------------------------------------
(* The program: the controller dispatches on the page.                     *)

Next ==
    \/ GoForecast
    \/ GoHorizon
    \/ BackHome
    \/ ClickRunForecast
    \/ ForecastRun
    \/ ClickRunHorizon
    \/ HorizonRun
    \/ Rerun

Spec == Init /\ [][Next]_vars

---------------------------------------------------------------------------
(* Properties of the scope forecast loop.                                  *)

\* A forecast run whose inputs are well formed: min <= max, trials > 0.
ValidForecastRun ==
    /\ page = "forecast"
    /\ stage \in {"trial", "week"}
    /\ scope_min <= scope_max
    /\ sims > 0

\* C1: in the scope forecast loop, for every scope range with min <= max
\* and every (non-empty, after the fallback) pool, zeros and negatives
\* included, every trial terminates (the run reaches its end with one
\* recorded outcome per trial), every recorded week count is >= 0, and when
\* scope_max = 0 every outcome is 0.
C1_TrialsTerminate ==
    /\ [](page = "forecast" =>
            /\ weeks >= 0
            /\ \A k \in 1 .. Len(results) :
                  /\ results[k] >= 0
                  /\ (scope_max = 0 => results[k] = 0))
    /\ [](ValidForecastRun => <>(stage = "done" /\ Len(results) = sims))

\* A finished run over a pool holding a zero or a negative value, in which
\* a trial took three weeks or more.
C1_Witness ==
    /\ page = "forecast" /\ stage = "done"
    /\ \E v \in Range(pulse) : v <= 0
    /\ sims = 2 /\ Len(results) = 2
    /\ results[1] >= 3

CeilDiv(s, c) == (s + c - 1) \div c

\* C2: when every element of the pool is the same positive value c and
\* scope_min = scope_max = s (a scope size, s >= 0), every trial's outcome
\* is ceil(s / c) whatever was drawn; pool [5,5,5,5,5] with scope (10,10)
\* gives 2 and pool [1] with scope (3,3) gives 3.
C2_ConstantPoolOutcome ==
    (/\ page = "forecast"
     /\ stage \in {"trial", "week", "done"}
     /\ scope_min = scope_max
     /\ scope_min >= 0
     /\ \E c \in Range(pulse) : c > 0 /\ Range(pulse) = {c})
    => \A k \in 1 .. Len(results) :
          /\ \A c \in Range(pulse) : results[k] = CeilDiv(scope_min, c)
          /\ (pulse = <<5, 5, 5, 5, 5>> /\ scope_min = 10 => results[k] = 2)
          /\ (pulse = <<1>> /\ scope_min = 3 => results[k] = 3)

\* The first scenario, finished with two trials.
C2_Witness ==
    /\ page = "forecast" /\ stage = "done"
    /\ pulse = <<5, 5, 5, 5, 5>>
    /\ scope_min = 10 /\ scope_max = 10
    /\ results = <<2, 2>>

---------------------------------------------------------------------------
(* Properties of the burn-up simulation.                                   *)

\* The rows of the matrix that have been simulated so far.
SimulatedRows == IF page = "horizon" /\ stage \in {"trial", "done"}
                 THEN 1 .. i ELSE {}

\* C3: given a sampling pool with no negative value, every simulated row is
\* non-decreasing from one week to the next and its first entry is at least
\* items_done.
C3_RowsMonotone ==
    (\A v \in Range(simulation_pool) : v >= 0)
    => \A r \in SimulatedRows :
          /\ futures[r][1] >= items_done
          /\ \A w \in 1 .. (remaining_weeks - 1) :
                futures[r][w] <= futures[r][w + 1]

\* A second trial over the pool [0, 1] with a flat week and a rising week.
C3_Witness ==
    /\ page = "horizon" /\ stage = "trial" /\ i = 2
    /\ simulation_pool = <<0, 1>>
    /\ futures[2][1] = futures[2][2]
    /\ futures[2][3] > futures[2][2]

---------------------------------------------------------------------------
(* Properties of the crossing locator and of what is shown for it.         *)

Options == {"A", "B", "C"}

\* The line scanned for each option of the Risk Menu and the week found.
LineY(o) == IF o = "A" THEN y_med ELSE IF o = "B" THEN y_comm ELSE y_out_bot

LineW(o) == IF o = "A" THEN w_50_exact
            ELSE IF o = "B" THEN w_85_exact ELSE w_95_exact

\* The target as it is compared with the scaled lines.
Target == 100 * total_scope

HorizonDone == page = "horizon" /\ stage = "done"

\* The segments k (from 1) of line y whose ends bracket the target t.
BracketingSegments(y, t) ==
    { k \in 1 .. (Len(y) - 1) : y[k] <= t /\ t <= y[k + 1] }

Least(S) == CHOOSE k \in S : \A j \in S : k <= j

\* The fraction num / (den + eps * 1e-9) of week w equals p / q exactly.
\* With the 1e-9 in the denominator no fraction of integers but 0 is met.
ExactFraction(w, p, q) ==
    IF w.eps = 1 THEN w.num = 0 /\ p = 0 ELSE w.num * q = p * w.den

\* What get_exact_week returns for line y: absent when no segment brackets
\* the target, else the first such segment's week and fraction, a value in
\* [current_week + i, current_week + i + 1].
FirstSegmentReturned(y, w) ==
    LET S == BracketingSegments(y, Target)
    IN  IF S = {}
        THEN ~w.found
        ELSE /\ w.found
             /\ w.whole = current_week + (Least(S) - 1)
             /\ w.num = Target - y[Least(S)]
             /\ w.den = y[Least(S) + 1] - y[Least(S)]
             /\ w.eps = 1
             /\ 0 <= w.num /\ w.num <= w.den

\* A line that starts [0, 10, ...] scanned for target 5 from week 0.
HalfwayScenario(y) ==
    current_week = 0 /\ y[1] = 0 /\ y[2] = 1000 /\ Target = 500

FiftyScenario ==
    /\ items_done = 0
    /\ current_week = 0
    /\ simulation_pool = <<10>>
    /\ total_scope = 50

C6_Original ==
    (HorizonDone /\ \A v \in Range(simulation_pool) : v >= 0) =>
        \A o \in Options :
            /\ ~LineW(o).found <=>
                  ~(\E k \in 1 .. Len(LineY(o)) : LineY(o)[k] >= Target)
            /\ (LineW(o).found => LineW(o).whole >= current_week)

\* C6 as amended: a returned week is >= the current week and some later
\* value of the line is then >= the target; when the line starts at or
\* below the target, absent is returned if and only if no later value
\* reaches the target; when every value of the line is above the target
\* (more items done than the total scope), absent is returned as well.
C6_AbsentIffNoCrossing ==
    HorizonDone =>
        \A o \in Options :
            /\ LineW(o).found =>
                  /\ \E k \in 2 .. Len(LineY(o)) : LineY(o)[k] >= Target
                  /\ LineW(o).whole >= current_week
                  /\ LineW(o).num >= 0
            /\ LineY(o)[1] <= Target =>
                  (LineW(o).found <=>
                      \E k \in 2 .. Len(LineY(o)) : LineY(o)[k] >= Target)
            /\ (\A k \in 1 .. Len(LineY(o)) : LineY(o)[k] > Target)
                  => ~LineW(o).found

\* More items done than the total scope: every value is above the target
\* and no week is returned.
C6_Witness ==
    /\ HorizonDone
    /\ items_done > total_scope
    /\ \A k \in 1 .. Len(y_med) : y_med[k] > Target
    /\ ~w_50_exact.found

\* C10: whenever get_exact_week returned a week for a line, the Risk Menu
\* shows "Week n" for that option and its marker is drawn; "N/A" is shown
\* only when None was returned.
C10_MenuShowsEveryCrossing ==
    HorizonDone =>
        \A o \in Options :
            /\ LineW(o).found => (menu[o].text = "Week" /\ markers[o].drawn)
            /\ menu[o].text = "N/A" => ~LineW(o).found

---------------------------------------------------------------------------
(* Properties of both runs.                                                *)

\* The inputs read for the run are malformed: scope min above max, or a
\* number of trials that is not positive.
Malformed ==
    /\ stage # "idle"
    /\ \/ page = "forecast" /\ (scope_min > scope_max \/ sims <= 0)
       \/ page = "horizon" /\ sims <= 0

\* No trial has been simulated and nothing has been computed from trials.
NothingProduced ==
    /\ i = 0
    /\ results = <<>>
    /\ ~summary.ready
    /\ y_med = <<>> /\ y_comm = <<>> /\ y_out_bot = <<>>
    /\ \A o \in Options :
          ~LineW(o).found /\ markers[o] = NoMarker /\ menu[o] = NoMenu

\* C7: with malformed inputs the run ends in an error raised before any
\* trial is simulated: it never enters a trial and never finishes, nothing
\* is produced, and the step it takes at the head of the trial loop is the
\* one that raises.
C7_MalformedInputsFail ==
    /\ [](Malformed =>
            /\ stage \in {"clicked", "trial", "error"}
            /\ NothingProduced
            /\ (stage = "error" => error \in {"ValueError", "IndexError"})
            /\ (stage # "error" => ENABLED (ForecastRun \/ HorizonRun)))
    /\ [][(Malformed /\ stage = "trial") => stage' = "error"]_vars

\* Scope min above max with a positive number of trials: randint raised.
C7_Witness ==
    /\ page = "forecast" /\ stage = "error" /\ error = "ValueError"
    /\ scope_min > scope_max
    /\ sims > 0
    /\ NothingProduced

\* The pool a run samples from.
SampledPool == IF page = "forecast" THEN pulse ELSE simulation_pool

\* The pool entered, with [1] in place of an empty one.
Supplied(pool) == IF pool = <<>> THEN <<1>> ELSE pool

\* While trials are simulated the sampled pool is not empty and is not
\* changed.
PoolKeptDuringRun ==
    stage \in {"trial", "week"}
    => /\ SampledPool # <<>>
       /\ pulse' = pulse
       /\ simulation_pool' = simulation_pool

\* C8 as stated: in both modes the sampled pool is never empty, an empty
\* supplied pool is replaced by exactly [1], and a non-empty supplied pool
\* is sampled unchanged for the whole run.
C8_Original ==
    [][/\ (page = "forecast" /\ stage = "clicked" /\ stage' # "clicked")
            => pulse' = Supplied(pulse)
       /\ (page = "horizon" /\ stage = "clicked" /\ stage' = "trial" /\ sims > 0)
            => simulation_pool' = Supplied(pulse_data)
       /\ PoolKeptDuringRun]_vars

\* C8 as amended: in both modes the sampled pool is never empty and is not
\* changed during the run; an empty supplied pool is replaced by [1]; the
\* forecast samples that pool unchanged, and the burn-up samples that pool
\* followed by the project actuals, so it samples the supplied pool
\* unchanged only when no actuals are entered.
C8_SampledPool ==
    [][/\ (page = "forecast" /\ stage = "clicked" /\ stage' # "clicked")
            => pulse' = Supplied(pulse)
       /\ (page = "horizon" /\ stage = "clicked" /\ stage' = "trial" /\ sims > 0)
            => /\ pulse_data' = Supplied(pulse_data)
               /\ simulation_pool' = Supplied(pulse_data) \o project_actuals
               /\ (project_actuals = <<>>
                     => simulation_pool' = Supplied(pulse_data))
       /\ PoolKeptDuringRun]_vars

\* An empty pulse with one week of actuals: the burn-up samples [1, 1].
C8_Witness ==
    /\ page = "horizon" /\ stage = "trial" /\ i = 1
    /\ project_actuals = <<1>>
    /\ pulse_data = <<1>>
    /\ simulation_pool = <<1, 1>>

Max0(x) == IF x > 0 THEN x ELSE 0

\* Weeks counted so far plus the work still to do.
WorkAndWeeks == weeks + Max0(total_work)

\* The value a row of the matrix had the week before week w.
Before(r, w) == IF w = 1 THEN items_done ELSE futures[r][w - 1]

\* C9: in the scope loop a draw <= 0 counts as 1, so every iteration lowers
\* the remaining work by at least 1 and adds exactly 1 to the weeks, and a
\* trial's week count never exceeds the scope size it drew (weeks plus
\* remaining work start at the drawn size and never grow); in the burn-up a
\* draw is added as it is, so every week's step is a value of the pool and
\* a draw of 0 leaves the cumulative value where it was.
C9_ZeroDrawAsymmetry ==
    /\ [][(page = "forecast" /\ stage = "week" /\ stage' = "week")
            => /\ weeks' = weeks + 1
               /\ velocity' >= 1
               /\ total_work' = total_work - velocity'
               /\ \/ velocity' \in Range(pulse)
                  \/ velocity' = 1 /\ \E v \in Range(pulse) : v <= 0
               /\ WorkAndWeeks' <= WorkAndWeeks]_vars
    /\ [][(page = "forecast" /\ stage = "trial" /\ stage' = "week")
            => /\ total_work' \in scope_min .. scope_max
               /\ WorkAndWeeks' = Max0(total_work')]_vars
    /\ [](page = "forecast" =>
            /\ weeks <= Max0(scope_max)
            /\ \A k \in 1 .. Len(results) : results[k] <= Max0(scope_max))
    /\ [](\A r \in SimulatedRows : \A w \in 1 .. remaining_weeks :
            /\ futures[r][w] - Before(r, w) \in Range(simulation_pool)
            /\ (simulation_pool = <<0>> => futures[r][w] = items_done))

\* A week of the scope loop in which a zero drawn from [0, 2] counted as 1.
C9_Witness ==
    /\ page = "forecast" /\ stage = "week"
    /\ pulse = <<0, 2>>
    /\ weeks >= 1
    /\ velocity = 1

====
